---- MODULE Spec2Model ----
(***************************************************************************)
(* Model of the rust_calc expression evaluator: tokenize, validate_parens  *)
(* (src/src/parser.rs), to_rpn, eval_rpn (src/src/rpn.rs) and the pipeline *)
(* run_repl (src/src/main.rs).                                             *)
(*                                                                         *)
(* Text is a sequence of one-character strings.  An f64 is modelled by an  *)
(* exact sign/magnitude rational extended with the IEEE-754 special values *)
(* (signed zero, signed infinity, NaN); rounding is outside the model.     *)
(***************************************************************************)
EXTENDS Integers, Sequences, FiniteSets, TLC

VARIABLES input, tokens, rpn, stack, result, pc, calls

vars == <<input, tokens, rpn, stack, result, pc, calls>>

(***************************************************************************)
(* Bounds of the model.                                                    *)
(***************************************************************************)
\* longest input text drawn by InitText
MaxLen == 5
\* longest token sequence drawn by InitTokens and InitRpn
MaxTok == 5
\* longest well-formed infix token sequence drawn by InitWF
MaxWF == 6

(***************************************************************************)
(* f64 values: [k, s, n, d] with k the class, s the sign bit (1 or -1),    *)
(* n/d the magnitude in lowest terms (fin only).                           *)
(***************************************************************************)
RECURSIVE GCD(_, _)
GCD(a, b) == IF b = 0 THEN a ELSE GCD(b, a % b)

Abs(x) == IF x < 0 THEN -x ELSE x

Sgn(x) == IF x < 0 THEN -1 ELSE 1

Fin(s, n, d) ==
    LET g == GCD(n, d)
    IN  [k |-> "fin", s |-> s, n |-> n \div g, d |-> d \div g]

Inf(s) == [k |-> "inf", s |-> s, n |-> 1, d |-> 0]

NaN == [k |-> "nan", s |-> 1, n |-> 0, d |-> 0]

\* a finite non-zero value the model does not compute (a power with a
\* non-integer exponent): only its sign is known
Irr(s) == [k |-> "irr", s |-> s, n |-> 1, d |-> 1]

Num(i) == Fin(Sgn(i), Abs(i), 1)

\* b == 0.0 taken as a comparison of the bits with +0.0: false of -0.0
IsPositiveZero(x) == x.k = "fin" /\ x.n = 0 /\ x.s = 1

\* b == 0.0 : true of both zeros, false of NaN
IsZero(x) == x.k = "fin" /\ x.n = 0

\* -x
Neg(x) == IF x.k = "nan" THEN NaN ELSE [x EXCEPT !.s = -x.s]

\* a + b
Add(a, b) ==
    CASE a.k = "nan" \/ b.k = "nan" -> NaN
      [] a.k = "inf" /\ b.k = "inf" -> IF a.s = b.s THEN a ELSE NaN
      [] a.k = "inf" /\ b.k = "fin" -> a
      [] a.k = "fin" /\ b.k = "inf" -> b
      [] a.k = "fin" /\ b.k = "fin" ->
            LET sn == a.s * a.n * b.d + b.s * b.n * a.d
            IN  IF sn = 0
                THEN Fin(IF a.s = -1 /\ b.s = -1 THEN -1 ELSE 1, 0, 1)
                ELSE Fin(Sgn(sn), Abs(sn), a.d * b.d)

\* a - b
Sub(a, b) == Add(a, Neg(b))

\* a * b
Mul(a, b) ==
    CASE a.k = "nan" \/ b.k = "nan" -> NaN
      [] a.k = "inf" /\ b.k = "inf" -> Inf(a.s * b.s)
      [] a.k = "inf" /\ b.k = "fin" -> IF b.n = 0 THEN NaN ELSE Inf(a.s * b.s)
      [] a.k = "fin" /\ b.k = "inf" -> IF a.n = 0 THEN NaN ELSE Inf(a.s * b.s)
      [] a.k = "fin" /\ b.k = "fin" -> Fin(a.s * b.s, a.n * b.n, a.d * b.d)

\* a / b
Div(a, b) ==
    CASE a.k = "nan" \/ b.k = "nan" -> NaN
      [] a.k = "inf" /\ b.k = "inf" -> NaN
      [] a.k = "inf" /\ b.k = "fin" -> Inf(a.s * b.s)
      [] a.k = "fin" /\ b.k = "inf" -> Fin(a.s * b.s, 0, 1)
      [] a.k = "fin" /\ b.k = "fin" ->
            IF b.n = 0
            THEN (IF a.n = 0 THEN NaN ELSE Inf(a.s * b.s))
            ELSE Fin(a.s * b.s, a.n * b.d, a.d * b.n)

RECURSIVE IPow(_, _)
IPow(x, e) == IF e = 0 THEN 1 ELSE x * IPow(x, e - 1)

IsInt(x) == x.k = "fin" /\ x.d = 1

IsOddInt(x) == IsInt(x) /\ x.n % 2 = 1

\* sign of a power with base sign s: negative only for an odd integer exponent
PowSign(s, b) == IF IsOddInt(b) THEN s ELSE 1

\* a.powf(b)
powf(a, b) ==
    CASE IsZero(b) -> Num(1)
      [] ~IsZero(b) /\ a = Num(1) -> Num(1)
      [] ~IsZero(b) /\ a # Num(1) /\ (a.k = "nan" \/ b.k = "nan") -> NaN
      [] a.k = "fin" /\ a # Num(1) /\ b.k = "inf" ->
            IF a.n = a.d THEN Num(1)
            ELSE IF (a.n < a.d) = (b.s = 1) THEN Num(0) ELSE Inf(1)
      [] a.k = "inf" /\ b.k = "inf" -> IF b.s = 1 THEN Inf(1) ELSE Num(0)
      [] a.k = "inf" /\ b.k = "fin" /\ ~IsZero(b) ->
            IF b.s = 1 THEN Inf(PowSign(a.s, b)) ELSE Fin(PowSign(a.s, b), 0, 1)
      [] a.k = "fin" /\ a.n = 0 /\ b.k = "fin" /\ ~IsZero(b) ->
            IF b.s = 1 THEN Fin(PowSign(a.s, b), 0, 1) ELSE Inf(PowSign(a.s, b))
      [] a.k = "fin" /\ a.n # 0 /\ a # Num(1) /\ IsInt(b) /\ ~IsZero(b) ->
            IF b.s = 1
            THEN Fin(PowSign(a.s, b), IPow(a.n, b.n), IPow(a.d, b.n))
            ELSE Fin(PowSign(a.s, b), IPow(a.d, b.n), IPow(a.n, b.n))
      [] a.k = "fin" /\ a.n # 0 /\ a # Num(1) /\ b.k = "fin" /\ ~IsInt(b) ->
            IF a.s = -1 THEN NaN ELSE Irr(1)

(***************************************************************************)
(* Token (parser.rs) with the two variants rpn.rs matches on in addition.  *)
(***************************************************************************)
NoValue == NaN

Number(v) == [type |-> "Number", value |-> v]

Tok(t) == [type |-> t, value |-> NoValue]

Plus == Tok("Plus")
Minus == Tok("Minus")
Multiply == Tok("Multiply")
Divide == Tok("Divide")
LParen == Tok("LParen")
RParen == Tok("RParen")
UnaryMinus == Tok("UnaryMinus")
Power == Tok("Power")

\* rank of the two variants that Token::precedence (parser.rs) does not list
PrefixPowerRank == 4

precedence(token) ==
    CASE token.type = "Number" -> 0
      [] token.type \in {"LParen", "RParen"} -> 1
      [] token.type \in {"Plus", "Minus"} -> 2
      [] token.type \in {"Multiply", "Divide"} -> 3
      [] token.type \in {"UnaryMinus", "Power"} -> PrefixPowerRank

(***************************************************************************)
(* Result<T, CalcError> (error.rs): detail is the String an InvalidToken   *)
(* or InvalidExpression carries, as a sequence of strings.                 *)
(***************************************************************************)
Ok(v) == [ok |-> TRUE, val |-> v, err |-> "", detail |-> <<>>]

Err(e, d) == [ok |-> FALSE, val |-> <<>>, err |-> e, detail |-> d]

InvalidToken(text) == Err("InvalidToken", text)

UnmatchedParens == Err("UnmatchedParens", <<>>)

DivideByZero == Err("DivideByZero", <<>>)

InvalidExpression(msg) == Err("InvalidExpression", msg)

None == [ok |-> FALSE, val |-> <<>>, err |-> "None", detail |-> <<>>]

(***************************************************************************)
(* parser.rs: tokenize                                                     *)
(***************************************************************************)
Digits == {"0", "1", "2", "3", "4", "5", "6", "7", "8", "9"}

Whitespace == {" ", "\t", "\n"}

is_ascii_digit(c) == c \in Digits

\* is_whitespace taken as the space character alone
is_whitespace_space_only(c) == c = " "

is_whitespace(c) == c \in Whitespace

DigitValue(c) ==
    CASE c = "0" -> 0 [] c = "1" -> 1 [] c = "2" -> 2 [] c = "3" -> 3
      [] c = "4" -> 4 [] c = "5" -> 5 [] c = "6" -> 6 [] c = "7" -> 7
      [] c = "8" -> 8 [] c = "9" -> 9

\* get_token with the two parenthesis arms exchanged
get_token_parens_swapped(c) ==
    CASE c = "+" -> Ok(Plus)
      [] c = "-" -> Ok(Minus)
      [] c = "*" -> Ok(Multiply)
      [] c = "/" -> Ok(Divide)
      [] c = "(" -> Ok(RParen)
      [] c = ")" -> Ok(LParen)
      [] OTHER -> InvalidToken(<<c>>)

get_token(c) ==
    CASE c = "+" -> Ok(Plus)
      [] c = "-" -> Ok(Minus)
      [] c = "*" -> Ok(Multiply)
      [] c = "/" -> Ok(Divide)
      [] c = "(" -> Ok(LParen)
      [] c = ")" -> Ok(RParen)
      [] OTHER -> InvalidToken(<<c>>)

\* the decimal reading of a run of digits and dots: <<mantissa, scale>> after
\* the characters s[i..], where dot says whether the dot has been passed
RECURSIVE Decimal(_, _, _, _, _)
Decimal(s, i, mant, scale, dot) ==
    IF i > Len(s) THEN <<mant, scale>>
    ELSE IF s[i] = "." THEN Decimal(s, i + 1, mant, scale, TRUE)
    ELSE Decimal(s, i + 1, 10 * mant + DigitValue(s[i]),
                 IF dot THEN 10 * scale ELSE scale, dot)

\* get_fnum reading a run without any digit as zero
get_fnum_dot_is_zero(s) ==
    LET dots == Cardinality({i \in 1..Len(s) : s[i] = "."})
        md   == Decimal(s, 1, 0, 1, FALSE)
    IN  IF dots <= 1
        THEN Ok(Fin(1, md[1], md[2]))
        ELSE InvalidToken(s)

\* str::parse::<f64> on a string of digits and dots: at least one digit and at
\* most one dot
get_fnum(s) ==
    LET dots == Cardinality({i \in 1..Len(s) : s[i] = "."})
        digs == Cardinality({i \in 1..Len(s) : s[i] \in Digits})
        md   == Decimal(s, 1, 0, 1, FALSE)
    IN  IF digs >= 1 /\ dots <= 1
        THEN Ok(Fin(1, md[1], md[2]))
        ELSE InvalidToken(s)

\* the loop of tokenize from character i on, with the tokens and the
\* num_buffer built so far, and the flush after the loop
RECURSIVE TokenizeFrom(_, _, _, _)
TokenizeFrom(text, i, toks, num_buffer) ==
    IF i > Len(text)
    THEN IF num_buffer # <<>>
         THEN LET num == get_fnum(num_buffer)
              IN  IF num.ok THEN Ok(Append(toks, Number(num.val))) ELSE num
         ELSE Ok(toks)
    ELSE LET c == text[i]
         IN  IF is_ascii_digit(c) \/ c = "."
             THEN TokenizeFrom(text, i + 1, toks, Append(num_buffer, c))
             ELSE LET num == IF num_buffer # <<>> THEN get_fnum(num_buffer)
                                                  ELSE None
                      flushed == IF num_buffer # <<>> /\ num.ok
                                 THEN Append(toks, Number(num.val))
                                 ELSE toks
                  IN  IF num_buffer # <<>> /\ ~num.ok THEN num
                      ELSE IF is_whitespace(c)
                      THEN TokenizeFrom(text, i + 1, flushed, <<>>)
                      ELSE LET t == get_token(c)
                           IN  IF t.ok
                               THEN TokenizeFrom(text, i + 1,
                                                 Append(flushed, t.val), <<>>)
                               ELSE t

tokenize(text) == TokenizeFrom(text, 1, <<>>, <<>>)

(***************************************************************************)
(* parser.rs: validate_parens                                              *)
(***************************************************************************)
RECURSIVE ValidateFrom(_, _, _)
ValidateFrom(toks, i, balance) ==
    IF i > Len(toks)
    THEN IF balance # 0 THEN UnmatchedParens ELSE Ok(<<>>)
    ELSE LET b == CASE toks[i].type = "LParen" -> balance + 1
                    [] toks[i].type = "RParen" -> balance - 1
                    [] OTHER -> balance
         IN  IF b < 0 THEN UnmatchedParens
             ELSE ValidateFrom(toks, i + 1, b)

\* validate_parens without the check inside the loop: only the final balance
validate_parens_final_balance(toks) ==
    IF Cardinality({i \in 1..Len(toks) : toks[i].type = "LParen"})
         = Cardinality({i \in 1..Len(toks) : toks[i].type = "RParen"})
    THEN Ok(<<>>) ELSE UnmatchedParens

validate_parens(toks) == ValidateFrom(toks, 1, 0)

(***************************************************************************)
(* rpn.rs: to_rpn                                                          *)
(***************************************************************************)
Last(s) == s[Len(s)]

Front(s) == SubSeq(s, 1, Len(s) - 1)

RpnState(output, operators, failed) ==
    [output |-> output, operators |-> operators, failed |-> failed]

\* the RParen arm with the emptiness check made before the popped token is
\* looked at
RECURSIVE PopToLParenEmptyFirst(_, _)
PopToLParenEmptyFirst(output, operators) ==
    IF operators = <<>> THEN RpnState(output, operators, FALSE)
    ELSE LET top == Last(operators)
             rest == Front(operators)
         IN  IF rest = <<>> THEN RpnState(output, rest, TRUE)
             ELSE IF top.type = "LParen" THEN RpnState(output, rest, FALSE)
             ELSE PopToLParenEmptyFirst(Append(output, top), rest)

\* the RParen arm dropping the operators it pops
RECURSIVE PopToLParenDiscards(_, _)
PopToLParenDiscards(output, operators) ==
    IF operators = <<>> THEN RpnState(output, operators, FALSE)
    ELSE LET top == Last(operators)
             rest == Front(operators)
         IN  IF top.type = "LParen" THEN RpnState(output, rest, FALSE)
             ELSE IF rest = <<>>
                  THEN RpnState(output, rest, TRUE)
                  ELSE PopToLParenDiscards(output, rest)

\* the RParen arm: pop operators into output until an LParen is popped
RECURSIVE PopToLParen(_, _)
PopToLParen(output, operators) ==
    IF operators = <<>> THEN RpnState(output, operators, FALSE)
    ELSE LET top == Last(operators)
             rest == Front(operators)
         IN  IF top.type = "LParen" THEN RpnState(output, rest, FALSE)
             ELSE IF rest = <<>>
                  THEN RpnState(Append(output, top), rest, TRUE)
                  ELSE PopToLParen(Append(output, top), rest)

\* the arm of the binary operators stopping at a UnaryMinus as at an LParen
RECURSIVE PopHigherKeepsUnary(_, _, _)
PopHigherKeepsUnary(output, operators, token) ==
    IF /\ operators # <<>>
       /\ Last(operators) # UnaryMinus
       /\ precedence(Last(operators)) >= precedence(token)
    THEN PopHigherKeepsUnary(Append(output, Last(operators)), Front(operators), token)
    ELSE RpnState(output, Append(operators, token), FALSE)

\* the arm of the binary operators popping only strictly higher ranks
RECURSIVE PopHigherStrict(_, _, _)
PopHigherStrict(output, operators, token) ==
    IF operators # <<>> /\ precedence(Last(operators)) > precedence(token)
    THEN PopHigherStrict(Append(output, Last(operators)), Front(operators), token)
    ELSE RpnState(output, Append(operators, token), FALSE)

\* the arm of Plus, Minus, Multiply, Divide: pop while the top ranks at least
\* as high as the incoming token, then push the token
RECURSIVE PopHigher(_, _, _)
PopHigher(output, operators, token) ==
    IF operators # <<>> /\ precedence(Last(operators)) >= precedence(token)
    THEN PopHigher(Append(output, Last(operators)), Front(operators), token)
    ELSE RpnState(output, Append(operators, token), FALSE)

\* to_rpn with UnaryMinus handled by the arm of the binary operators
ToRpnTokenUnaryCompared(output, operators, token) ==
    CASE token.type = "Number" -> RpnState(Append(output, token), operators, FALSE)
      [] token.type \in {"LParen", "Power"} ->
            RpnState(output, Append(operators, token), FALSE)
      [] token.type = "RParen" -> PopToLParen(output, operators)
      [] token.type \in {"Plus", "Minus", "Multiply", "Divide", "UnaryMinus"} ->
            PopHigher(output, operators, token)

\* to_rpn with Power handled by the arm of the binary operators
ToRpnTokenPowerCompared(output, operators, token) ==
    CASE token.type = "Number" -> RpnState(Append(output, token), operators, FALSE)
      [] token.type \in {"LParen", "UnaryMinus"} ->
            RpnState(output, Append(operators, token), FALSE)
      [] token.type = "RParen" -> PopToLParen(output, operators)
      [] token.type \in {"Plus", "Minus", "Multiply", "Divide", "Power"} ->
            PopHigher(output, operators, token)

\* one iteration of the loop over the input tokens
ToRpnToken(output, operators, token) ==
    CASE token.type = "Number" -> RpnState(Append(output, token), operators, FALSE)
      [] token.type \in {"LParen", "UnaryMinus", "Power"} ->
            RpnState(output, Append(operators, token), FALSE)
      [] token.type = "RParen" -> PopToLParen(output, operators)
      [] token.type \in {"Plus", "Minus", "Multiply", "Divide"} ->
            PopHigher(output, operators, token)

\* the loop after the input without the check for a remaining LParen
RECURSIVE DrainUnchecked(_, _)
DrainUnchecked(output, operators) ==
    IF operators = <<>> THEN Ok(output)
    ELSE DrainUnchecked(Append(output, Last(operators)), Front(operators))

\* the loop after the input: move the remaining operators to the output
RECURSIVE Drain(_, _)
Drain(output, operators) ==
    IF operators = <<>> THEN Ok(output)
    ELSE IF Last(operators) = LParen THEN UnmatchedParens
    ELSE Drain(Append(output, Last(operators)), Front(operators))

RECURSIVE ToRpnFrom(_, _, _, _)
ToRpnFrom(toks, i, output, operators) ==
    IF i > Len(toks) THEN Drain(output, operators)
    ELSE LET st == ToRpnToken(output, operators, toks[i])
         IN  IF st.failed THEN UnmatchedParens
             ELSE ToRpnFrom(toks, i + 1, st.output, st.operators)

to_rpn(toks) == ToRpnFrom(toks, 1, <<>>, <<>>)

\* the output queue and the operator stack after the first n iterations of
\* the loop of to_rpn; failed once an iteration has returned the error
RECURSIVE RpnStateAfter(_, _)
RpnStateAfter(toks, n) ==
    IF n = 0 THEN RpnState(<<>>, <<>>, FALSE)
    ELSE LET before == RpnStateAfter(toks, n - 1)
         IN  IF before.failed THEN before
             ELSE ToRpnToken(before.output, before.operators, toks[n])

(***************************************************************************)
(* rpn.rs: eval_rpn                                                        *)
(***************************************************************************)
MsgUnaryOperand == "unary minus requires one operand"
MsgInsufficient == "insufficient operands for operation"
MsgUnsupported == "unsupported token"
MsgExtraValues == "extra values remained on the stack"
MsgStackEmpty == "stack empty after evaluation"

EvalState(st, error) == [stack |-> st, error |-> error]

\* the arm of the remaining tokens taking the first popped value as the
\* left-hand operand
EvalBinarySwapped(st, token) ==
    IF Len(st) < 2
    THEN EvalState(<<>>, InvalidExpression(<<MsgInsufficient, token.type>>))
    ELSE LET a == Last(st)
             b == Last(Front(st))
             rest == Front(Front(st))
         IN  CASE token.type = "Power" -> EvalState(Append(rest, powf(a, b)), None)
               [] token.type = "Plus" -> EvalState(Append(rest, Add(a, b)), None)
               [] token.type = "Minus" -> EvalState(Append(rest, Sub(a, b)), None)
               [] token.type = "Multiply" -> EvalState(Append(rest, Mul(a, b)), None)
               [] token.type = "Divide" ->
                    IF IsZero(b) THEN EvalState(rest, DivideByZero)
                    ELSE EvalState(Append(rest, Div(a, b)), None)
               [] OTHER ->
                    EvalState(rest, InvalidExpression(<<MsgUnsupported, token.type>>))

\* the arm of the remaining tokens: pop b, then a, and push the result
EvalBinary(st, token) ==
    IF Len(st) < 2
    THEN EvalState(<<>>, InvalidExpression(<<MsgInsufficient, token.type>>))
    ELSE LET b == Last(st)
             a == Last(Front(st))
             rest == Front(Front(st))
         IN  CASE token.type = "Power" -> EvalState(Append(rest, powf(a, b)), None)
               [] token.type = "Plus" -> EvalState(Append(rest, Add(a, b)), None)
               [] token.type = "Minus" -> EvalState(Append(rest, Sub(a, b)), None)
               [] token.type = "Multiply" -> EvalState(Append(rest, Mul(a, b)), None)
               [] token.type = "Divide" ->
                    IF IsZero(b) THEN EvalState(rest, DivideByZero)
                    ELSE EvalState(Append(rest, Div(a, b)), None)
               [] OTHER ->
                    EvalState(rest, InvalidExpression(<<MsgUnsupported, token.type>>))

\* eval_rpn with an arm that skips parenthesis tokens
EvalTokenSkipsParens(st, token) ==
    CASE token.type = "Number" -> EvalState(Append(st, token.value), None)
      [] token.type = "UnaryMinus" ->
            IF st = <<>>
            THEN EvalState(st, InvalidExpression(<<MsgUnaryOperand>>))
            ELSE EvalState(Append(Front(st), Neg(Last(st))), None)
      [] token.type \in {"LParen", "RParen"} -> EvalState(st, None)
      [] OTHER -> EvalBinary(st, token)

\* one iteration of the loop over the postfix tokens: the stack it leaves and
\* the error it returns (None when the loop goes on)
EvalToken(st, token) ==
    CASE token.type = "Number" -> EvalState(Append(st, token.value), None)
      [] token.type = "UnaryMinus" ->
            IF st = <<>>
            THEN EvalState(st, InvalidExpression(<<MsgUnaryOperand>>))
            ELSE EvalState(Append(Front(st), Neg(Last(st))), None)
      [] OTHER -> EvalBinary(st, token)

\* the final match returning the top of the stack whatever lies below it
EvalFinalTopOnly(st) ==
    IF st # <<>> THEN Ok(Last(st)) ELSE InvalidExpression(<<MsgStackEmpty>>)

\* the match after the loop
EvalFinal(st) ==
    CASE Len(st) = 1 -> Ok(st[1])
      [] Len(st) > 1 -> InvalidExpression(<<MsgExtraValues>>)
      [] OTHER -> InvalidExpression(<<MsgStackEmpty>>)

RECURSIVE EvalFrom(_, _)
EvalFrom(queue, st) ==
    IF queue = <<>> THEN EvalFinal(st)
    ELSE LET e == EvalToken(st, Head(queue))
         IN  IF e.error # None THEN e.error ELSE EvalFrom(Tail(queue), e.stack)

eval_rpn(queue) == EvalFrom(queue, <<>>)

(***************************************************************************)
(* Inputs.                                                                 *)
(***************************************************************************)
\* s is a sequence over S of at most n elements
IsSeqUpTo(s, S, n) == \E m \in 0..n : s \in [1..m -> S]

\* the characters of the bounded input texts
Alphabet == {"0", "1", ".", " ", "+", "-", "/", "^", "(", ")", "a"}

\* inputs of the tests of main.rs and parser.rs ("1E10" beside their "1e10"),
\* and three inputs with misplaced operands: "1 2 +", "+ 1 2", "() 1"
Fixtures ==
    { <<"2", "^", "3", "^", "2">>,
      <<"3", "^", "2", "^", "2">>,
      <<"(", "2", "^", "3", ")", "^", "2">>,
      <<"2", "^", "1", "0">>,
      <<"-", "5">>,
      <<"-", "(", "-", "4", ")">>,
      <<"2", " ", "+", " ", "(", "-", "3", ")">>,
      <<"2", " ", "+", " ", "3", " ", "*", " ", "4">>,
      <<"1", " ", "2", " ", "+", " ", "2">>,
      <<"1", " ", "/", " ", "0">>,
      <<"1", ".", "2", ".", "3">>,
      <<"1", "2", ".", "5", " ", "*", "\t", "2">>,
      <<"1", "a", "2">>,
      <<"1", "e", "1", "0">>,
      <<"1", "E", "1", "0">>,
      <<"1", " ", "2", " ", "+">>,
      <<"+", " ", "1", " ", "2">>,
      <<"(", ")", " ", "1">> }

IsText(s) == IsSeqUpTo(s, Alphabet, MaxLen) \/ s \in Fixtures

NumValues == {Num(0), Num(2)}

BinOps == {Plus, Minus, Multiply, Divide, Power}

Tokens ==
    {Number(v) : v \in NumValues} \cup BinOps \cup {UnaryMinus, LParen, RParen}

IsTokenSeq(s) == IsSeqUpTo(s, Tokens, MaxTok)

\* the postfix input of the test of associativity of eval_rpn: 1 2 - 3 -
RpnFixtures ==
    { <<Number(Num(1)), Number(Num(2)), Minus, Number(Num(3)), Minus>> }

\* inputs of the tests of to_rpn that are longer than MaxTok, and the
\* parenthesized power for all bounded numbers
TokenFixtures ==
    { <<Number(Num(2)), Minus, LParen, UnaryMinus, Number(Num(3)), RParen>>,
      <<UnaryMinus, LParen, Number(Num(1)), Plus, Number(Num(2)), RParen,
        Multiply, UnaryMinus, Number(Num(3))>>,
      <<LParen, Number(Num(2)), Power, Number(Num(3)), RParen, Power,
        Number(Num(4))>> }
    \cup { <<LParen, Number(a), Power, Number(b), RParen, Power, Number(c)>> :
             a \in NumValues, b \in NumValues, c \in NumValues }

\* the well-formed infix token sequences of exactly n tokens:
\* E ::= Number | E binop E | UnaryMinus E | LParen E RParen
RECURSIVE WellFormed(_)
WellFormed(n) ==
    IF n < 1 THEN {}
    ELSE IF n = 1 THEN {<<Number(v)>> : v \in NumValues}
    ELSE {<<UnaryMinus>> \o e : e \in WellFormed(n - 1)}
         \cup {<<LParen>> \o e \o <<RParen>> : e \in WellFormed(n - 2)}
         \cup UNION { {l \o <<op>> \o r :
                           l \in WellFormed(i), op \in BinOps,
                           r \in WellFormed(n - 1 - i)} : i \in 1..(n - 2) }

WellFormedSeqs == UNION {WellFormed(n) : n \in 1..MaxWF}

(***************************************************************************)
(* main.rs: run_repl, one action per stage; eval_rpn runs token by token.  *)
(* pc names the call that comes next; calls lists the calls made.          *)
(***************************************************************************)
\* run_repl(input)
InitText ==
    /\ IsText(input)
    /\ tokens = <<>>
    /\ rpn = <<>>
    /\ stack = <<>>
    /\ result = None
    /\ calls = <<>>
    /\ pc = "tokenize"

\* validate_parens(&tokens) or to_rpn(tokens) called on a token sequence
InitTokens ==
    /\ input = <<>>
    /\ IsTokenSeq(tokens) \/ tokens \in TokenFixtures
    /\ rpn = <<>>
    /\ stack = <<>>
    /\ result = None
    /\ calls = <<>>
    /\ pc \in {"validate_parens", "to_rpn"}

\* eval_rpn(rpn) called on a token sequence
InitRpn ==
    /\ input = <<>>
    /\ tokens = <<>>
    /\ IsTokenSeq(rpn) \/ rpn \in RpnFixtures
    /\ stack = <<>>
    /\ result = None
    /\ calls = <<>>
    /\ pc = "eval_rpn"

\* to_rpn(tokens) called on a well-formed infix sequence
InitWF ==
    /\ input = <<>>
    /\ tokens \in WellFormedSeqs
    /\ rpn = <<>>
    /\ stack = <<>>
    /\ result = None
    /\ calls = <<>>
    /\ pc = "to_rpn"

Tokenize ==
    /\ pc = "tokenize"
    /\ calls' = Append(calls, "tokenize")
    /\ LET r == tokenize(input)
       IN  IF r.ok
           THEN tokens' = r.val /\ pc' = "validate_parens" /\ UNCHANGED result
           ELSE result' = r /\ pc' = "done" /\ UNCHANGED tokens
    /\ UNCHANGED <<input, rpn, stack>>

\* run_repl without the ? after validate_parens: its error is dropped
ValidateParensErrorDropped ==
    /\ pc = "validate_parens"
    /\ calls' = Append(calls, "validate_parens")
    /\ pc' = "to_rpn"
    /\ UNCHANGED <<input, tokens, rpn, stack, result>>

ValidateParens ==
    /\ pc = "validate_parens"
    /\ calls' = Append(calls, "validate_parens")
    /\ LET r == validate_parens(tokens)
       IN  IF r.ok
           THEN pc' = "to_rpn" /\ UNCHANGED result
           ELSE result' = r /\ pc' = "done"
    /\ UNCHANGED <<input, tokens, rpn, stack>>

ToRpn ==
    /\ pc = "to_rpn"
    /\ calls' = Append(calls, "to_rpn")
    /\ LET r == to_rpn(tokens)
       IN  IF r.ok
           THEN rpn' = r.val /\ pc' = "eval_rpn" /\ UNCHANGED result
           ELSE result' = r /\ pc' = "done" /\ UNCHANGED rpn
    /\ UNCHANGED <<input, tokens, stack>>

\* eval_rpn is entered with an empty value stack
EvalCall ==
    /\ pc = "eval_rpn"
    /\ calls' = Append(calls, "eval_rpn")
    /\ stack' = <<>>
    /\ pc' = "eval_loop"
    /\ UNCHANGED <<input, tokens, rpn, result>>

\* one iteration of while let Some(token) = rpn.pop_front()
EvalStep ==
    /\ pc = "eval_loop"
    /\ rpn # <<>>
    /\ rpn' = Tail(rpn)
    /\ LET e == EvalToken(stack, Head(rpn))
       IN  /\ stack' = e.stack
           /\ IF e.error # None
              THEN result' = e.error /\ pc' = "done"
              ELSE UNCHANGED <<result, pc>>
    /\ UNCHANGED <<input, tokens, calls>>

\* the queue is empty: the final match decides
EvalFinish ==
    /\ pc = "eval_loop"
    /\ rpn = <<>>
    /\ result' = EvalFinal(stack)
    /\ pc' = "done"
    /\ UNCHANGED <<input, tokens, rpn, stack, calls>>

Next ==
    \/ Tokenize
    \/ ValidateParens
    \/ ToRpn
    \/ EvalCall
    \/ EvalStep
    \/ EvalFinish

NextTokens ==
    \/ ValidateParens
    \/ ToRpn
    \/ EvalCall
    \/ EvalStep
    \/ EvalFinish

NextRpn ==
    \/ EvalCall
    \/ EvalStep
    \/ EvalFinish

\* the pipeline on an input text
Spec == InitText /\ [][Next]_vars

\* the stages called on token sequences
SpecTokens == InitTokens /\ [][NextTokens]_vars

\* eval_rpn called on any token sequence
SpecRpn == InitRpn /\ [][NextRpn]_vars

\* to_rpn and eval_rpn on well-formed infix sequences
SpecWF == InitWF /\ [][NextRpn \/ ToRpn]_vars

\* the pipeline on an input text, and eval_rpn called on any token sequence
SpecTextOrRpn == (InitText \/ InitRpn) /\ [][Next]_vars

(***************************************************************************)
(* Properties.                                                             *)
(***************************************************************************)
Stages == <<"tokenize", "validate_parens", "to_rpn", "eval_rpn">>

IsPrefix(a, b) == Len(a) <= Len(b) /\ a = SubSeq(b, 1, Len(a))

Count(seq, n, P(_)) == Cardinality({i \in 1..n : P(seq[i])})

IsOpenChar(c) == c = "("
IsCloseChar(c) == c = ")"
IsLParen(t) == t.type = "LParen"
IsRParen(t) == t.type = "RParen"

\* some prefix holds more closing than opening parentheses, or the totals differ
UnbalancedText(text) ==
    \/ \E n \in 1..Len(text) :
          Count(text, n, IsCloseChar) > Count(text, n, IsOpenChar)
    \/ Count(text, Len(text), IsCloseChar) # Count(text, Len(text), IsOpenChar)

UnbalancedTokens(toks) ==
    \/ \E n \in 1..Len(toks) :
          Count(toks, n, IsRParen) > Count(toks, n, IsLParen)
    \/ Count(toks, Len(toks), IsRParen) # Count(toks, Len(toks), IsLParen)

\* characters of the expression language of the specification
LanguageChars ==
    Digits \cup Whitespace \cup {".", "+", "-", "*", "/", "^", "(", ")"}

HasUnrecognized(text) == \E i \in 1..Len(text) : text[i] \notin LanguageChars

\* C1: run_repl calls tokenize, validate_parens, to_rpn, eval_rpn in this
\* order and returns the error of the first stage that fails, unchanged and
\* without calling a later stage; an input with an unrecognized character
\* yields InvalidToken also when its parentheses are unbalanced, and an input
\* that tokenizes but has unbalanced parentheses yields UnmatchedParens.
C1_FirstFailingStageDecides ==
    /\ IsPrefix(calls, Stages)
    /\ pc = "done" =>
        LET t == tokenize(input)
            v == validate_parens(t.val)
            r == to_rpn(t.val)
        IN  /\ ~t.ok => calls = <<"tokenize">> /\ result = t
            /\ t.ok /\ ~v.ok =>
                  calls = <<"tokenize", "validate_parens">> /\ result = v
            /\ t.ok /\ v.ok /\ ~r.ok =>
                  calls = <<"tokenize", "validate_parens", "to_rpn">> /\ result = r
            /\ t.ok /\ v.ok /\ r.ok => calls = Stages
            /\ HasUnrecognized(input) => result.err = "InvalidToken"
            /\ t.ok /\ UnbalancedText(input) => result = UnmatchedParens

C1_Witness ==
    /\ pc = "done"
    /\ input = <<"(", "1", " ", "+">>
    /\ result = UnmatchedParens
    /\ calls = <<"tokenize", "validate_parens">>

\* C2: the pipeline accepts '^' and evaluates it right-associatively:
\* "2^3^2" is 512, "3^2^2" is 81, "(2^3)^2" is 64 and "2^10" is 1024.
C2_PowerThroughPipeline ==
    pc = "done" =>
        /\ input = <<"2", "^", "3", "^", "2">> => result.ok /\ result.val = Num(512)
        /\ input = <<"3", "^", "2", "^", "2">> => result.ok /\ result.val = Num(81)
        /\ input = <<"(", "2", "^", "3", ")", "^", "2">> =>
              result.ok /\ result.val = Num(64)
        /\ input = <<"2", "^", "1", "0">> => result.ok /\ result.val = Num(1024)

\* C3: the pipeline reads a '-' at the start of the input, after '(' or after
\* an operator as negation: "-5" is -5, "-(-4)" is 4 and "2 + (-3)" is -1.
C3_UnaryMinusThroughPipeline ==
    pc = "done" =>
        /\ input = <<"-", "5">> => result.ok /\ result.val = Num(-5)
        /\ input = <<"-", "(", "-", "4", ")">> => result.ok /\ result.val = Num(4)
        /\ input = <<"2", " ", "+", " ", "(", "-", "3", ")">> =>
              result.ok /\ result.val = Num(-1)

\* C4: for a well-formed infix token sequence to_rpn succeeds and eval_rpn
\* never fails with InvalidExpression: every operator finds its operands,
\* exactly one value is left at the end, and DivideByZero is the only error.
C4_WellFormedEvaluates ==
    /\ pc = "done" =>
          /\ calls = <<"to_rpn", "eval_rpn">>
          /\ result.ok \/ result = DivideByZero
          /\ result.ok => rpn = <<>> /\ stack = <<result.val>>
    /\ pc = "eval_loop" /\ rpn # <<>> =>
          /\ Head(rpn).type \in {"Number", "UnaryMinus"} \cup {b.type : b \in BinOps}
          /\ Head(rpn).type = "UnaryMinus" => Len(stack) >= 1
          /\ Head(rpn).type \in {b.type : b \in BinOps} => Len(stack) >= 2

C4_Witness ==
    /\ pc = "done"
    /\ tokens = <<Number(Num(2)), Power, UnaryMinus, Number(Num(2)), Multiply,
                  Number(Num(2))>>
    /\ result.ok
    /\ result.val = Fin(1, 1, 2)

\* C5: validate_parens fails with UnmatchedParens exactly when some prefix
\* of the tokens holds more RParen than LParen or the totals differ, and
\* returns Ok otherwise, wherever numbers and operators stand.
ValidateCalledFirst == calls # <<>> /\ calls[1] = "validate_parens"

ValidateFailed == calls = <<"validate_parens">> /\ pc = "done"

C5_ValidateParensExact ==
    ValidateCalledFirst =>
        /\ ValidateFailed <=> UnbalancedTokens(tokens)
        /\ ValidateFailed => result = UnmatchedParens
        /\ ~ValidateFailed /\ Len(calls) = 1 => pc = "to_rpn" /\ result = None

C5_Witness ==
    /\ calls = <<"validate_parens">>
    /\ tokens = <<LParen, RParen, Number(Num(2))>>
    /\ pc = "to_rpn"

\* C6: to_rpn on its own fails with UnmatchedParens whenever an RParen is
\* reached while no LParen is on the operator stack (also when the stack is
\* empty) and whenever an LParen is left on the stack at the end of input.
ToRpnCalledFirst == calls # <<>> /\ calls[1] = "to_rpn"

C6_ToRpnRejectsUnmatched ==
    ToRpnCalledFirst /\ UnbalancedTokens(tokens) =>
        pc = "done" /\ calls = <<"to_rpn">> /\ result = UnmatchedParens

\* C7: eval_rpn returns DivideByZero exactly when it processes a Divide token
\* with at least two values on the stack whose top is zero, and then pushes
\* no quotient; Power never returns it; Divide with fewer than two values
\* returns InvalidExpression.
BinOpTypes == {"Plus", "Minus", "Multiply", "Divide", "Power"}

C8_FinalMatch ==
    /\ [][ pc = "eval_loop" /\ rpn = <<>> =>
             /\ pc' = "done"
             /\ Len(stack) = 1 => result'.ok /\ result'.val = stack[1]
             /\ Len(stack) >= 2 => result' = InvalidExpression(<<MsgExtraValues>>)
             /\ Len(stack) = 0 => result' = InvalidExpression(<<MsgStackEmpty>>) ]_vars
    /\ [](pc = "done" /\ calls = Stages /\ input = <<>> =>
             result = InvalidExpression(<<MsgStackEmpty>>))

C8_Witness ==
    /\ pc = "done"
    /\ Len(stack) = 2
    /\ rpn = <<>>
    /\ result = InvalidExpression(<<MsgExtraValues>>)

\* C9: in eval_rpn an operator token that finds too few values fails with
\* InvalidExpression and evaluation stops at that token: a binary operator
\* with fewer than two values (message naming the operator), UnaryMinus with
\* an empty stack, and LParen or RParen whatever the stack holds.
C9_OperandErrors ==
    /\ [][ pc = "eval_loop" /\ rpn # <<>> =>
             LET t == Head(rpn).type
             IN  /\ t \in BinOpTypes /\ Len(stack) < 2 =>
                       /\ pc' = "done"
                       /\ result' = InvalidExpression(<<MsgInsufficient, t>>)
                 /\ t = "UnaryMinus" /\ stack = <<>> =>
                       /\ pc' = "done"
                       /\ result' = InvalidExpression(<<MsgUnaryOperand>>)
                 /\ t \in {"LParen", "RParen"} =>
                       /\ pc' = "done"
                       /\ result'.err = "InvalidExpression"
                 /\ pc' = "done" => rpn' = Tail(rpn) ]_vars
    /\ [][ pc = "done" => UNCHANGED <<pc, result, rpn, stack>> ]_vars

C9_Witness ==
    /\ pc = "done"
    /\ result = InvalidExpression(<<MsgUnsupported, "RParen">>)
    /\ rpn # <<>>

\* C10 (as claimed): tokenize gives the same result for an input and for the
\* input with all whitespace removed.
StripWhitespace(text) == SelectSeq(text, LAMBDA c : c \notin Whitespace)

TokenizeReturned ==
    IF pc = "done" /\ calls = <<"tokenize">> THEN result ELSE Ok(tokens)

C10_WhitespaceNeverSignificant ==
    pc # "tokenize" => TokenizeReturned = tokenize(StripWhitespace(input))

\* whitespace stands directly between two characters of numeric literals
SplitsLiterals(text) ==
    \E i \in 1..Len(text), j \in 1..Len(text) :
        /\ i + 1 < j
        /\ text[i] \in Digits \cup {"."}
        /\ text[j] \in Digits \cup {"."}
        /\ \A k \in (i + 1)..(j - 1) : text[k] \in Whitespace

\* C10 (amended): tokenize gives the same result for an input and for the
\* input with all whitespace removed, provided no whitespace stands directly
\* between two digit-or-dot characters (there it ends one number and starts
\* the next).
C10_WhitespaceOnlySeparatesLiterals ==
    pc # "tokenize" /\ ~SplitsLiterals(input) =>
        TokenizeReturned = tokenize(StripWhitespace(input))

C10_Witness ==
    /\ pc = "validate_parens"
    /\ input = <<" ", "1", " ", "+", "1">>
    /\ tokens = <<Number(Num(1)), Plus, Number(Num(1))>>

\* the maximal runs of digits and dots of a text, as <<first, last>>
IsNumChar(c) == c \in Digits \cup {"."}

NumRuns(text) ==
    {r \in (1..Len(text)) \X (1..Len(text)) :
        /\ r[1] <= r[2]
        /\ \A k \in r[1]..r[2] : IsNumChar(text[k])
        /\ r[1] = 1 \/ ~IsNumChar(text[r[1] - 1])
        /\ r[2] = Len(text) \/ ~IsNumChar(text[r[2] + 1])}

RunText(text, r) == SubSeq(text, r[1], r[2])

\* a run with no digit or with two or more dots
BadRun(text, r) ==
    \/ \A k \in r[1]..r[2] : text[k] = "."
    \/ Cardinality({k \in r[1]..r[2] : text[k] = "."}) >= 2

\* the characters tokenize accepts
AcceptedChars ==
    Digits \cup Whitespace \cup {".", "+", "-", "*", "/", "(", ")"}

\* nothing before position n makes tokenize fail
CleanBefore(text, n) ==
    /\ \A k \in 1..(n - 1) : text[k] \in AcceptedChars
    /\ \A q \in NumRuns(text) : q[2] < n => ~BadRun(text, q)

\* the k-th maximal run, in the order of the text
NthRun(text, k) ==
    CHOOSE r \in NumRuns(text) :
        Cardinality({q \in NumRuns(text) : q[1] < r[1]}) = k - 1

IsNumber(t) == t.type = "Number"

\* C11: tokenize turns every maximal run of digits and dots with at least one
\* digit and at most one dot into exactly one Number token, in the order of
\* the text, and fails with InvalidToken carrying the whole run when the run
\* has two or more dots or no digit; a run ends at the first character that is
\* neither digit nor dot and at the end of the input.
C11_NumericRuns ==
    calls = <<"tokenize">> =>
        LET ret  == TokenizeReturned
            runs == NumRuns(input)
        IN  /\ ret.ok =>
                 LET nums == SelectSeq(ret.val, IsNumber)
                 IN  /\ \A r \in runs : ~BadRun(input, r)
                     /\ Len(nums) = Cardinality(runs)
                     /\ \A k \in 1..Len(nums) :
                           LET run == RunText(input, NthRun(input, k))
                               md  == Decimal(run, 1, 0, 1, FALSE)
                           IN  nums[k] = Number(Fin(1, md[1], md[2]))
            /\ \A r \in runs :
                 BadRun(input, r) /\ CleanBefore(input, r[1]) =>
                     ret = InvalidToken(RunText(input, r))
            /\ ~ret.ok /\ (\A k \in 1..Len(ret.detail) : IsNumChar(ret.detail[k])) =>
                 \E r \in runs :
                     BadRun(input, r) /\ ret.detail = RunText(input, r)

C11_Witness ==
    /\ pc = "done"
    /\ input = <<"0", "+", "1", ".", ".">>
    /\ result = InvalidToken(<<"1", ".", ".">>)

\* the token of each operator and parenthesis character of get_token
OperatorChars == {"+", "-", "*", "/", "(", ")"}

OperatorToken(c) ==
    CASE c = "+" -> Plus
      [] c = "-" -> Minus
      [] c = "*" -> Multiply
      [] c = "/" -> Divide
      [] c = "(" -> LParen
      [] c = ")" -> RParen

IsParen(t) == t.type \in {"LParen", "RParen"}

\* C13: whenever to_rpn returns Ok, its output holds no LParen and no RParen,
\* for every input token sequence, ill-formed ones included.
C13_NoParensInPostfix ==
    pc = "eval_rpn" => \A i \in 1..Len(rpn) : ~IsParen(rpn[i])

C13_Witness ==
    /\ pc = "eval_rpn"
    /\ calls = <<"to_rpn">>
    /\ tokens = <<LParen, Number(Num(2)), RParen, RParen>>
    /\ rpn = <<Number(Num(2))>>

ArithOps == {Plus, Minus, Multiply, Divide}

\* the iterations of to_rpn that handle token n of toks with an LParen on the
\* operator stack keep the stack up to its topmost LParen
KeepsLParen(toks, n) ==
    LET before == RpnStateAfter(toks, n - 1)
        after  == RpnStateAfter(toks, n)
        ps     == {p \in 1..Len(before.operators) : before.operators[p] = LParen}
    IN  ~before.failed /\ ps # {} =>
            LET top == CHOOSE p \in ps : \A q \in ps : q <= p
            IN  /\ ~after.failed
                /\ Len(after.operators) > top
                /\ SubSeq(after.operators, 1, top) = SubSeq(before.operators, 1, top)
                /\ \A i \in 1..Len(after.output) : after.output[i] # LParen

\* C14: to_rpn orders + - * / by precedence and left-associativity: for
\* numbers a, b, c the input [a, op1, b, op2, c] yields [a, b, c, op2, op1]
\* when op2 is * or / and op1 is + or -, and [a, b, op1, c, op2] otherwise;
\* an LParen on the operator stack is never popped by an incoming binary
\* operator.
C14_PrecedenceAndLeftAssociativity ==
    calls = <<"to_rpn">> =>
        /\ ( /\ Len(tokens) = 5
             /\ IsNumber(tokens[1]) /\ IsNumber(tokens[3]) /\ IsNumber(tokens[5])
             /\ tokens[2] \in ArithOps /\ tokens[4] \in ArithOps )
           => /\ pc = "eval_rpn"
              /\ rpn = IF tokens[4] \in {Multiply, Divide} /\ tokens[2] \in {Plus, Minus}
                       THEN <<tokens[1], tokens[3], tokens[5], tokens[4], tokens[2]>>
                       ELSE <<tokens[1], tokens[3], tokens[2], tokens[5], tokens[4]>>
        /\ \A n \in 1..Len(tokens) :
                tokens[n] \in ArithOps => KeepsLParen(tokens, n)

C14_Witness ==
    /\ pc = "eval_rpn"
    /\ tokens = <<Number(Num(2)), Minus, Number(Num(0)), Minus, Number(Num(2))>>
    /\ rpn = <<Number(Num(2)), Number(Num(0)), Minus, Number(Num(2)), Minus>>

\* the types of the tokens of a sequence
Types(toks) == [i \in 1..Len(toks) |-> toks[i].type]

\* to_rpn, called on its own, has returned
ToRpnReturned == calls = <<"to_rpn">>

\* C15: to_rpn treats Power as right-associative and as binding tighter than
\* * / + -: an incoming Power pops nothing and is pushed, so
\* [a, Power, b, Power, c] yields [a, b, c, Power, Power],
\* [LParen, a, Power, b, RParen, Power, c] yields [a, b, Power, c, Power] and
\* [a, Power, b, Multiply, c] yields [a, b, Power, c, Multiply].
C15_PowerRightAssociative ==
    ToRpnReturned =>
        /\ \A n \in 1..Len(tokens) :
              LET before == RpnStateAfter(tokens, n - 1)
                  after  == RpnStateAfter(tokens, n)
              IN  tokens[n] = Power /\ ~before.failed =>
                      /\ after.operators = Append(before.operators, Power)
                      /\ after.output = before.output
                      /\ ~after.failed
        /\ Types(tokens) = <<"Number", "Power", "Number", "Power", "Number">> =>
              /\ pc = "eval_rpn"
              /\ rpn = <<tokens[1], tokens[3], tokens[5], Power, Power>>
        /\ Types(tokens) = <<"LParen", "Number", "Power", "Number", "RParen",
                             "Power", "Number">> =>
              /\ pc = "eval_rpn"
              /\ rpn = <<tokens[2], tokens[4], Power, tokens[7], Power>>
        /\ Types(tokens) = <<"Number", "Power", "Number", "Multiply", "Number">> =>
              /\ pc = "eval_rpn"
              /\ rpn = <<tokens[1], tokens[3], Power, tokens[5], Multiply>>

C15_Witness ==
    /\ pc = "eval_rpn"
    /\ tokens = <<LParen, Number(Num(2)), Power, Number(Num(3)), RParen, Power,
                  Number(Num(4))>>
    /\ rpn = <<Number(Num(2)), Number(Num(3)), Power, Number(Num(4)), Power>>

\* C16: to_rpn places unary minus between the multiplicative operators and
\* power: for op among + - * /, [UnaryMinus, a, op, b] yields
\* [a, UnaryMinus, b, op]; [UnaryMinus, a, Power, b] yields
\* [a, b, Power, UnaryMinus]; a UnaryMinus directly before an LParen negates
\* the whole parenthesized group: [UnaryMinus, LParen, X, RParen] yields the
\* postfix of X followed by UnaryMinus.
C16_UnaryMinusPlacement ==
    ToRpnReturned =>
        /\ ( /\ Types(tokens) \in {<<"UnaryMinus", "Number", t, "Number">> :
                                      t \in {"Plus", "Minus", "Multiply", "Divide"}} )
           => /\ pc = "eval_rpn"
              /\ rpn = <<tokens[2], UnaryMinus, tokens[4], tokens[3]>>
        /\ Types(tokens) = <<"UnaryMinus", "Number", "Power", "Number">> =>
              /\ pc = "eval_rpn"
              /\ rpn = <<tokens[2], tokens[4], Power, UnaryMinus>>
        /\ ( /\ Len(tokens) >= 3
             /\ tokens[1] = UnaryMinus
             /\ tokens[2] = LParen
             /\ tokens[Len(tokens)] = RParen
             /\ ~UnbalancedTokens(SubSeq(tokens, 3, Len(tokens) - 1)) )
           => /\ pc = "eval_rpn"
              /\ rpn = to_rpn(SubSeq(tokens, 3, Len(tokens) - 1)).val \o <<UnaryMinus>>

C16_Witness ==
    /\ pc = "eval_rpn"
    /\ tokens = <<UnaryMinus, LParen, Number(Num(2)), Minus, Number(Num(0)), RParen>>
    /\ rpn = <<Number(Num(2)), Number(Num(0)), Minus, UnaryMinus>>

RECURSIVE IntPow(_, _)
IntPow(x, e) == IF e = 0 THEN 1 ELSE x * IntPow(x, e - 1)

\* the finite value r is the result of a op b on the finite values a and b,
\* as an identity of integers
IsResultOf(r, type, a, b) ==
    LET an == a.s * a.n
        bn == b.s * b.n
        rn == r.s * r.n
    IN  CASE type = "Plus" -> rn * a.d * b.d = (an * b.d + bn * a.d) * r.d
          [] type = "Minus" -> rn * a.d * b.d = (an * b.d - bn * a.d) * r.d
          [] type = "Multiply" -> rn * a.d * b.d = an * bn * r.d
          [] type = "Divide" -> rn * a.d * bn = an * b.d * r.d
          [] type = "Power" ->
                IF b.d # 1 THEN TRUE
                ELSE IF b.s = 1 \/ b.n = 0
                THEN r.k = "fin" /\ rn * IntPow(a.d, b.n) = IntPow(an, b.n) * r.d
                ELSE a.n # 0 =>
                       r.k = "fin" /\ rn * IntPow(an, b.n) = IntPow(a.d, b.n) * r.d

\* C18: for a binary operator eval_rpn pops the right-hand operand b first
\* and the left-hand operand a second and pushes exactly one value, a+b, a-b,
\* a*b, a/b or a to the power b, so that [a, b, Minus] gives a-b and
\* [1, 2, Minus, 3, Minus] gives -4; UnaryMinus replaces the top value x by
\* -x; the rest of the stack is unchanged.
C18_OperandOrder ==
    [][ pc = "eval_loop" /\ rpn # <<>> =>
          LET t == Head(rpn).type
              n == Len(stack)
          IN  /\ t \in BinOpTypes /\ n >= 2 /\ pc' = "eval_loop" =>
                    /\ Len(stack') = n - 1
                    /\ SubSeq(stack', 1, n - 2) = SubSeq(stack, 1, n - 2)
                    /\ stack[n - 1].k = "fin" /\ stack[n].k = "fin" =>
                          /\ t # "Power" => stack'[n - 1].k = "fin"
                          /\ IsResultOf(stack'[n - 1], t, stack[n - 1], stack[n])
              /\ t = "UnaryMinus" /\ n >= 1 =>
                    /\ pc' = "eval_loop"
                    /\ Len(stack') = n
                    /\ SubSeq(stack', 1, n - 1) = SubSeq(stack, 1, n - 1)
                    /\ stack'[n].k = stack[n].k
                    /\ stack[n].k # "nan" =>
                          /\ stack'[n].s = -stack[n].s
                          /\ stack'[n].n = stack[n].n
                          /\ stack'[n].d = stack[n].d
              /\ ( /\ stack = <<Num(1), Num(2)>>
                   /\ rpn = <<Minus, Number(Num(3)), Minus>> )
                 => stack' = <<Num(-1)>>
              /\ stack = <<Num(-1), Num(3)>> /\ rpn = <<Minus>> =>
                    stack' = <<Num(-4)>> ]_vars

C18_Witness ==
    /\ pc = "eval_loop"
    /\ calls = <<"eval_rpn">>
    /\ rpn = <<Minus>>
    /\ stack = <<Num(-1), Num(3)>>

\* C19: for every token sequence that validate_parens accepts, to_rpn returns
\* Ok: in the pipeline the conversion never fails, UnmatchedParens always
\* comes from validate_parens and every InvalidExpression from eval_rpn.
C19_ConversionNeverFailsAfterValidation ==
    ValidateCalledFirst =>
        /\ ~(pc = "done" /\ calls = <<"validate_parens", "to_rpn">>)
        /\ Len(calls) = 2 => to_rpn(tokens).ok /\ pc = "eval_rpn"
        /\ pc = "done" /\ result.err = "UnmatchedParens" =>
              calls = <<"validate_parens">>
        /\ pc = "done" /\ result.err = "InvalidExpression" =>
              calls = <<"validate_parens", "to_rpn", "eval_rpn">>

C19_Witness ==
    /\ pc = "done"
    /\ calls = <<"validate_parens", "to_rpn", "eval_rpn">>
    /\ tokens = <<LParen, Plus, RParen, LParen, RParen>>
    /\ result.err = "InvalidExpression"

\* how often the token t occurs in a sequence
Occurrences(seq, t) == Cardinality({i \in 1..Len(seq) : seq[i] = t})

\* C20: whenever to_rpn returns Ok, its output is a rearrangement of the
\* input's tokens other than parentheses: every Number and operator token
\* occurs as often as in the input, the length is that of the input minus the
\* number of parenthesis tokens, and the Number tokens keep their order.
C20_PostfixIsRearrangement ==
    pc = "eval_rpn" =>
        /\ \A i \in 1..Len(tokens) :
              ~IsParen(tokens[i]) =>
                  Occurrences(rpn, tokens[i]) = Occurrences(tokens, tokens[i])
        /\ \A i \in 1..Len(rpn) :
              Occurrences(rpn, rpn[i]) = Occurrences(tokens, rpn[i])
        /\ Len(rpn) = Len(tokens) - Count(tokens, Len(tokens), IsParen)
        /\ SelectSeq(rpn, IsNumber) = SelectSeq(tokens, IsNumber)

C20_Witness ==
    /\ pc = "eval_rpn"
    /\ tokens = <<LParen, Number(Num(0)), Minus, Number(Num(2)), RParen>>
    /\ rpn = <<Number(Num(0)), Number(Num(2)), Minus>>

\* a token sequence is a well-formed infix expression: operands (a Number, a
\* parenthesized expression, or either after prefix minus signs) alternate
\* with binary operators, and the parentheses match; scanning from token i
\* at the given nesting depth, operand says that an operand is expected
RECURSIVE InfixFrom(_, _, _, _)
InfixFrom(toks, i, depth, operand) ==
    IF i > Len(toks) THEN ~operand /\ depth = 0
    ELSE LET t == toks[i].type
         IN  IF operand
             THEN CASE t = "Number" -> InfixFrom(toks, i + 1, depth, FALSE)
                    [] t = "LParen" -> InfixFrom(toks, i + 1, depth + 1, TRUE)
                    [] t \in {"Minus", "UnaryMinus"} ->
                          InfixFrom(toks, i + 1, depth, TRUE)
                    [] OTHER -> FALSE
             ELSE CASE t \in BinOpTypes -> InfixFrom(toks, i + 1, depth, TRUE)
                    [] t = "RParen" ->
                          depth > 0 /\ InfixFrom(toks, i + 1, depth - 1, FALSE)
                    [] OTHER -> FALSE

IsWellFormedInfix(toks) == InfixFrom(toks, 1, 0, TRUE)

\* C21: the pipeline returns a number only for well-formed infix input: an
\* input whose tokens are not a well-formed infix expression (two adjacent
\* numbers, a binary operator without a left operand, an empty parenthesis
\* pair) ends in an error, never in Ok(value).
C21_OnlyWellFormedEvaluates ==
    pc = "done" /\ result.ok => IsWellFormedInfix(tokens)

====
